---- MODULE Spec2Model ----
(***************************************************************************)
(* A model of cornflex.reader.SFTPReader (src/cornflex/reader.py): the     *)
(* connection lifecycle (connect / close / get_files) and the three        *)
(* content-fetch calls, over an explicit model of the paramiko objects the *)
(* reader creates.  Strings that the code inspects character by character  *)
(* (file names, glob patterns, remote paths) are sequences of one-letter   *)
(* strings; opaque strings (host, user, credentials) are TLA+ strings.     *)
(***************************************************************************)
EXTENDS Integers, Sequences, FiniteSets, TLC

VARIABLES
    hostname, username, port, password, pem_file, \* the dataclass fields
    _client, _sftp,          \* the two handles (0 is None, else an object id)
    clientObj,               \* SSHClient objects ever created: id -> state
    sftpObj,                 \* SFTPClient opened over client id: id -> state
    op,                      \* the method called last
    pre,                     \* the handles and session state before that call
    raised,                  \* the exception it propagated, or "none"
    calls,                   \* the calls it made, in order, each with its outcome
    kwargs,                  \* the keyword arguments it gave SSHClient.connect
    reqPaths,                \* the paths it asked SFTPClient.file for
    diag,                    \* the lines it printed
    retList,                 \* what get_files returned
    retFetch,                \* what a fetch call returned
    all_files, file_pattern, \* get_files: the remote listing and the pattern
    remote_path, file_name   \* fetch calls: the two path arguments

vars == << hostname, username, port, password, pem_file, _client, _sftp,
           clientObj, sftpObj, op, pre, raised, calls, kwargs, reqPaths, diag,
           retList, retFetch, all_files, file_pattern, remote_path, file_name >>

config == << hostname, username, port, password, pem_file >>

----------------------------------------------------------------------------
(* Bounds of the model *)

\* SSHClient objects one run may create
MaxClients == 2
\* entries in a remote listing
MaxList == 3
\* characters in a remote_path
MaxPathLen == 3

(* Program constants *)
DefaultPort == 22
Timeout == 30

None == "<None>"

\* Python truthiness of an Optional[str]: None and "" are falsy
Truthy(v) == v # None /\ v # ""

Ids == 1..MaxClients

RECURSIVE SeqsUpTo(_, _)
SeqsUpTo(S, n) ==
    IF n = 0 THEN { <<>> }
    ELSE LET shorter == SeqsUpTo(S, n - 1)
         IN  shorter \cup { Append(s, x) : s \in { t \in shorter : Len(t) = n - 1 }, x \in S }

\* the inputs the calls are tried on; a string the code looks into is a
\* sequence of characters
Names == { <<"a">>, <<"b">>, <<"a", "b">> }
Patterns == { <<"*">>, <<"?">>, <<"b">>, <<"a", "*">>, <<"*", "b">>, <<"?", "?">>,
              <<"a", "?">>, <<"*", "a", "*">> }
Listings == SeqsUpTo(Names, MaxList)
Paths == SeqsUpTo({"/", "d"}, MaxPathLen)
FileNames == { <<"f">>, <<"f", "g">> }
Endpoints == { <<"host", "user", DefaultPort>>, <<"other", "root", 2222>> }

----------------------------------------------------------------------------
(* The object store an operation works on, and what it leaves behind *)

Store0 ==
    [ client |-> _client, sftp |-> _sftp, cobj |-> clientObj, sobj |-> sftpObj,
      calls |-> <<>>, kw |-> <<>>, paths |-> <<>>, diag |-> <<>> ]

Call(fn, ok) == [fn |-> fn, ok |-> ok]

Log(st, fn, ok) == [st EXCEPT !.calls = Append(@, Call(fn, ok))]

FreshId(cobj) ==
    CHOOSE i \in Ids : cobj[i] = "unborn" /\ \A j \in Ids : j < i => cobj[j] # "unborn"

\* the credential test written with "is None" instead of truthiness
missing_credential_none == password = None /\ pem_file = None

\* "if not self.password and not self.pem_file"
missing_credential == ~Truthy(password) /\ ~Truthy(pem_file)

\* the model can still allocate the SSHClient that connect() would create
CanConnect == missing_credential \/ \E i \in Ids : clientObj[i] = "unborn"

base_kwargs ==
    [hostname |-> hostname, port |-> port, username |-> username, timeout |-> Timeout]

\* the dict with the password always added
connect_kwargs_both ==
    IF Truthy(pem_file)
    THEN ("pkey" :> pem_file) @@ ("password" :> password) @@ base_kwargs
    ELSE ("password" :> password) @@ base_kwargs

\* the dict built at lines 29-40: the private key when pem_file is set, else the password
connect_kwargs ==
    IF Truthy(pem_file)
    THEN ("pkey" :> pem_file) @@ base_kwargs
    ELSE ("password" :> password) @@ base_kwargs

ConnectOutcomes ==
    IF missing_credential THEN {"ok"}
    ELSE {"ok", "connect_fail", "sftp_fail"}
         \cup (IF Truthy(pem_file) THEN {"key_fail"} ELSE {})

\* SFTPReader.connect; oc says which library call, if any, throws
connect(st, oc) ==
    LET s0 == Log(st, "self.connect", TRUE) IN
    IF missing_credential
    THEN [st |-> s0, exc |-> "ValueError"]
    ELSE
      LET id == FreshId(st.cobj)
          s1 == Log([s0 EXCEPT !.client = id, !.cobj[id] = "created"], "SSHClient", TRUE)
          s2 == IF Truthy(pem_file)
                THEN Log(s1, "from_private_key_file", oc # "key_fail")
                ELSE s1
          s3 == Log([s2 EXCEPT !.kw = Append(@, connect_kwargs)],
                    "client.connect", oc # "connect_fail")
          s4 == [s3 EXCEPT !.cobj[id] = "connected"]
          s5 == Log(s4, "open_sftp", oc # "sftp_fail")
          s6 == [s5 EXCEPT !.sftp = id, !.sobj[id] = "open"]
      IN  IF oc = "key_fail" THEN [st |-> s2, exc |-> "KeyLoadError"]
          ELSE IF oc = "connect_fail" THEN [st |-> s3, exc |-> "ConnectError"]
          ELSE IF oc = "sftp_fail" THEN [st |-> s5, exc |-> "SftpOpenError"]
          ELSE [st |-> s6, exc |-> "none"]

\* SFTPReader.close; f1, f2 say whether SFTPClient.close / SSHClient.close throw
close(st, f1, f2) ==
    LET s0 == Log(st, "self.close", TRUE)
        s1 == IF st.sftp # 0
              THEN Log(IF f1 THEN s0 ELSE [s0 EXCEPT !.sobj[st.sftp] = "closed"],
                       "sftp.close", ~f1)
              ELSE s0
        \* closing the transport also ends the channel opened over it
        s2 == IF st.client # 0
              THEN Log(IF f2 THEN s1
                       ELSE [s1 EXCEPT !.cobj[st.client] = "closed",
                                       !.sobj[st.client] =
                                           IF @ = "open" THEN "closed" ELSE @],
                       "client.close", ~f2)
              ELSE s1
    IN  IF st.sftp # 0 /\ f1 THEN [st |-> s1, exc |-> "SftpCloseError"]
        ELSE IF st.client # 0 /\ f2 THEN [st |-> s2, exc |-> "ClientCloseError"]
        ELSE [st |-> s2, exc |-> "none"]


\* fnmatch.fnmatch(name, pat) on a case-sensitive platform, for patterns made
\* of literal characters, "*" and "?"
RECURSIVE fnmatch(_, _)
fnmatch(name, pat) ==
    IF pat = <<>> THEN name = <<>>
    ELSE IF Head(pat) = "*"
         THEN fnmatch(name, Tail(pat)) \/ (name # <<>> /\ fnmatch(Tail(name), pat))
    ELSE IF Head(pat) = "?"
         THEN name # <<>> /\ fnmatch(Tail(name), Tail(pat))
    ELSE name # <<>> /\ Head(name) = Head(pat) /\ fnmatch(Tail(name), Tail(pat))

\* the comprehension of get_files with the matches collected back to front
matching_reversed(files, pat) ==
    LET RECURSIVE Rev(_)
        Rev(ys) == IF ys = <<>> THEN <<>>
                   ELSE IF fnmatch(Head(ys), pat) THEN Append(Rev(Tail(ys)), Head(ys))
                   ELSE Rev(Tail(ys))
    IN  Rev(files)

\* "[f for f in all_files if fnmatch.fnmatch(name=f, pat=file_pattern)]"
matching(files, pat) ==
    LET RECURSIVE Comp(_)
        Comp(ys) == IF ys = <<>> THEN <<>>
                    ELSE IF fnmatch(Head(ys), pat) THEN <<Head(ys)>> \o Comp(Tail(ys))
                    ELSE Comp(Tail(ys))
    IN  Comp(files)

\* SFTPReader.get_files: connect(), then try: listdir + filter, finally: close()
get_files(st, listing, pat, oc, listFail, f1, f2) ==
    LET c == connect(st, oc) IN
    IF c.exc # "none" THEN [st |-> c.st, exc |-> c.exc, val |-> <<>>]
    ELSE
      LET s1 == Log(c.st, "listdir", ~listFail)
          matched == matching(listing, pat)
          fin == close(s1, f1, f2)
      IN  IF fin.exc # "none" THEN [st |-> fin.st, exc |-> fin.exc, val |-> <<>>]
          ELSE IF listFail THEN [st |-> fin.st, exc |-> "ListdirError", val |-> <<>>]
          ELSE [st |-> fin.st, exc |-> "none", val |-> matched]

----------------------------------------------------------------------------
(* The content-fetch calls *)

\* str.rstrip("/")
RECURSIVE rstrip(_)
rstrip(s) ==
    IF s # <<>> /\ s[Len(s)] = "/" THEN rstrip(SubSeq(s, 1, Len(s) - 1)) ELSE s

\* the join with a single trailing "/" dropped
remote_file_path_one(rpath, fname) ==
    (IF rpath # <<>> /\ rpath[Len(rpath)] = "/"
     THEN SubSeq(rpath, 1, Len(rpath) - 1) ELSE rpath) \o <<"/">> \o fname

\* f"{remote_path.rstrip('/')}/{file_name}"
remote_file_path(rpath, fname) == rstrip(rpath) \o <<"/">> \o fname

Range(seq) == { seq[i] : i \in DOMAIN seq }

\* the steps of seq that run when step fail throws: all up to and including it
Logged(seq, fail) ==
    LET n == IF fail \in Range(seq)
             THEN CHOOSE i \in DOMAIN seq : seq[i] = fail
             ELSE Len(seq)
    IN  [i \in 1..n |-> Call(seq[i], seq[i] # fail)]

\* an except clause that lets the error through
except_reraise(st, fname, e) ==
    [st |-> st, exc |-> e, val |-> "n/a"]

\* "except Exception as e: print(f"Error getting {file_name}: {e}"); return None"
except_Exception(st, fname, e) ==
    [st |-> [st EXCEPT !.diag = Append(@, [text |-> "Error getting", file_name |-> fname,
                                             detail |-> e])],
     exc |-> "none", val |-> "None"]

\* the try block shared by the three fetch calls: open the remote file, run the
\* steps inside the with block, leave it (which closes the file), run the rest
try_read(st, fname, rpath, inside, after, fail, okval) ==
    LET path == remote_file_path(rpath, fname)
        s0 == [st EXCEPT !.paths = Append(@, path)]
        steps == <<"sftp.file">> \o inside \o <<"file.close">> \o after
        made == IF fail \in Range(inside)
                THEN Logged(<<"sftp.file">> \o inside, fail) \o << Call("file.close", TRUE) >>
                ELSE Logged(steps, fail)
        s1 == [s0 EXCEPT !.calls = @ \o made]
    IN  IF fail = "none" THEN [st |-> s1, exc |-> "none", val |-> okval]
        ELSE except_Exception(s1, fname, fail)

NotConnected(st) == [st |-> st, exc |-> "RuntimeError", val |-> "n/a"]

\* SFTPReader.get_csv_file; named is the truthiness of column_names
get_csv_file(st, fname, rpath, named, fail) ==
    IF st.sftp = 0 THEN NotConnected(st)
    ELSE try_read(st, fname, rpath, <<"file.read", "decode">>, <<"read_csv">>, fail,
                  IF named THEN "table:new_columns" ELSE "table:header_row")

\* SFTPReader.get_xml_file_to_string
get_xml_file_to_string(st, fname, rpath, fail) ==
    IF st.sftp = 0 THEN NotConnected(st)
    ELSE try_read(st, fname, rpath, <<"file.read", "decode">>, <<>>, fail, "text")

\* SFTPReader.file_to_string; a chardet.detect that fails is one with no guess,
\* whose None encoding makes bytes.decode raise inside the same try block
file_to_string(st, fname, rpath, encoding, fail) ==
    IF st.sftp = 0 THEN NotConnected(st)
    ELSE try_read(st, fname, rpath, <<"file.read">>,
                  IF encoding = None THEN <<"chardet.detect", "decode">> ELSE <<"decode">>,
                  fail, "text")

\* which step may throw: any, but opening a file over a closed channel always does
Failures(steps) ==
    IF _sftp # 0 /\ sftpObj[_sftp] = "open" /\ clientObj[_sftp] = "connected"
    THEN steps \cup {"none"}
    ELSE {"sftp.file"}

----------------------------------------------------------------------------
(* Actions: one per public method *)

SessionOpen ==
    _sftp # 0 /\ sftpObj[_sftp] = "open" /\ clientObj[_sftp] = "connected"

Commit(name, r) ==
    /\ op' = name
    /\ pre' = [client |-> _client, sftp |-> _sftp, open |-> SessionOpen]
    /\ _client' = r.st.client
    /\ _sftp' = r.st.sftp
    /\ clientObj' = r.st.cobj
    /\ sftpObj' = r.st.sobj
    /\ raised' = r.exc
    /\ calls' = r.st.calls
    /\ kwargs' = r.st.kw
    /\ reqPaths' = r.st.paths
    /\ diag' = r.st.diag
    /\ UNCHANGED << config, all_files, file_pattern, remote_path, file_name >>

Connect ==
    /\ CanConnect
    /\ \E oc \in ConnectOutcomes :
          /\ Commit("connect", connect(Store0, oc))
          /\ retList' = <<>>
          /\ retFetch' = "n/a"

Close ==
    \E f1, f2 \in BOOLEAN :
        /\ Commit("close", close(Store0, f1, f2))
        /\ retList' = <<>>
        /\ retFetch' = "n/a"

GetFiles ==
    /\ CanConnect
    /\ \E oc \in ConnectOutcomes, listFail, f1, f2 \in BOOLEAN :
          LET r == get_files(Store0, all_files, file_pattern, oc, listFail, f1, f2)
          IN  /\ Commit("get_files", r)
              /\ retList' = r.val
              /\ retFetch' = "n/a"

GetCsvFile ==
    \E named \in BOOLEAN,
       fail \in Failures({"sftp.file", "file.read", "decode", "file.close", "read_csv"}) :
        LET r == get_csv_file(Store0, file_name, remote_path, named, fail)
        IN  /\ Commit("get_csv_file", r)
            /\ retList' = <<>>
            /\ retFetch' = r.val

GetXmlFileToString ==
    \E fail \in Failures({"sftp.file", "file.read", "decode", "file.close"}) :
        LET r == get_xml_file_to_string(Store0, file_name, remote_path, fail)
        IN  /\ Commit("get_xml_file_to_string", r)
            /\ retList' = <<>>
            /\ retFetch' = r.val

FileToString ==
    \E encoding \in {None, "latin-1"} :
      \E fail \in Failures({"sftp.file", "file.read", "file.close", "decode"}
                           \cup (IF encoding = None THEN {"chardet.detect"} ELSE {})) :
        LET r == file_to_string(Store0, file_name, remote_path, encoding, fail)
        IN  /\ Commit("file_to_string", r)
            /\ retList' = <<>>
            /\ retFetch' = r.val

----------------------------------------------------------------------------
(* Specifications *)

\* __post_init__: both handles None; nothing has been called yet
InitObjects ==
    /\ _client = 0
    /\ _sftp = 0
    /\ clientObj = [i \in Ids |-> "unborn"]
    /\ sftpObj = [i \in Ids |-> "unborn"]
    /\ op = "init"
    /\ pre = [client |-> 0, sftp |-> 0, open |-> FALSE]
    /\ raised = "none"
    /\ calls = <<>>
    /\ kwargs = <<>>
    /\ reqPaths = <<>>
    /\ diag = <<>>
    /\ retList = <<>>
    /\ retFetch = "n/a"

\* the lifecycle: every credential configuration, one fixed set of arguments
Init ==
    /\ \E e \in Endpoints : hostname = e[1] /\ username = e[2] /\ port = e[3]
    /\ password \in {None, "", "pass"}
    /\ pem_file \in {None, "", "key.pem"}
    /\ all_files = << <<"b">>, <<"a">> >>
    /\ file_pattern = <<"*">>
    /\ remote_path = <<"d", "/">>
    /\ file_name = <<"f">>
    /\ InitObjects

Next ==
    \/ Connect
    \/ Close
    \/ GetFiles
    \/ GetCsvFile
    \/ GetXmlFileToString
    \/ FileToString

Spec == Init /\ [][Next]_vars

PasswordClient ==
    /\ hostname = "host"
    /\ username = "user"
    /\ port = DefaultPort
    /\ password = "pass"
    /\ pem_file = None

\* get_files on every bounded listing and pattern
InitFilter ==
    /\ PasswordClient
    /\ all_files \in Listings
    /\ file_pattern \in Patterns
    /\ remote_path = <<".">>
    /\ file_name = <<"f">>
    /\ InitObjects

NextFilter == GetFiles

SpecFilter == InitFilter /\ [][NextFilter]_vars

\* the fetch calls on every bounded remote_path and file name
InitPath ==
    /\ PasswordClient
    /\ all_files = <<>>
    /\ file_pattern = <<"*">>
    /\ remote_path \in Paths
    /\ file_name \in FileNames
    /\ InitObjects

NextPath ==
    \/ Connect
    \/ GetCsvFile
    \/ GetXmlFileToString
    \/ FileToString

SpecPath == InitPath /\ [][NextPath]_vars

----------------------------------------------------------------------------
(* Properties *)

FetchOps == {"get_csv_file", "get_xml_file_to_string", "file_to_string"}

Made(fn) == \E i \in DOMAIN calls : calls[i].fn = fn

Times(fn) == Cardinality({ i \in DOMAIN calls : calls[i].fn = fn })

Threw(fn) == \E i \in DOMAIN calls : calls[i].fn = fn /\ ~calls[i].ok

OpenSessions == { i \in Ids : clientObj[i] = "connected" }

\* C1: a fetch call on a client with no open session raises the not-connected
\* error and asks the remote side for nothing.
C1_NoSessionFetchRaises ==
    (op \in FetchOps /\ ~pre.open) =>
        (raised = "RuntimeError" /\ reqPaths = <<>> /\ calls = <<>>)

\* C2: once get_files has opened its session, close() runs exactly once before
\* it returns or propagates, and a listing error is what the caller receives.
C2_ListClosesOnceAndPropagates ==
    (op = "get_files" /\ Made("listdir")) =>
        /\ Times("self.close") = 1
        /\ calls[Len(calls)].fn \in {"self.close", "sftp.close", "client.close"}
        /\ Threw("listdir") => raised = "ListdirError"
        /\ ~Threw("listdir") => raised = "none"

\* C3: when get_files fails in its connect() step, close() still runs and no
\* SSHClient created by the call is left unreleased.
C3_ConnectFailureStillCloses ==
    (op = "get_files" /\ ~Made("listdir")) =>
        /\ Made("self.close")
        /\ \A i \in Ids :
              (i = _client /\ _client # pre.client) =>
                  clientObj[i] \notin {"created", "connected"}

\* C4: close() never raises, and a failing SFTPClient.close does not keep the
\* SSHClient from being closed.
C4_CloseNeverRaises ==
    op = "close" =>
        /\ raised = "none"
        /\ (Threw("sftp.close") /\ pre.client # 0) => Made("client.close")

\* C5: connect() with neither a password nor a key file fails with the
\* missing-credential error before any SSHClient is created or contacted, and
\* leaves both handles as they were: None.
C5_MissingCredentialFailsFirst ==
    (op = "connect" /\ ~Truthy(password) /\ ~Truthy(pem_file)) =>
        /\ raised = "ValueError"
        /\ ~Made("SSHClient") /\ ~Made("client.connect") /\ kwargs = <<>>
        /\ _client = pre.client /\ _sftp = pre.sftp
        /\ _client = 0 /\ _sftp = 0
        /\ \A i \in Ids : clientObj[i] = "unborn" /\ sftpObj[i] = "unborn"

C5_Witness ==
    /\ op = "connect" /\ raised = "ValueError"
    /\ password = None /\ pem_file = None /\ hostname = "other" /\ port = 2222

\* C6: with a session open, a fetch call in which any step throws returns None,
\* raises nothing, prints exactly one line naming the file and the error, and
\* leaves the session open.
C6_FetchContainsErrors ==
    (op \in FetchOps /\ pre.open /\ \E i \in DOMAIN calls : ~calls[i].ok) =>
        /\ retFetch = "None"
        /\ raised = "none"
        /\ Len(diag) = 1
        /\ diag[1].text = "Error getting"
        /\ diag[1].file_name = file_name
        /\ Threw(diag[1].detail)
        /\ SessionOpen /\ _client = pre.client /\ _sftp = pre.sftp

C6_Witness ==
    /\ op = "file_to_string" /\ pre.open /\ Threw("chardet.detect")
    /\ retFetch = "None" /\ Len(diag) = 1

\* C7: what get_files returns is the sub-sequence of the remote listing whose
\* names match the pattern, in the listing's order: the k-th name returned is
\* the name at the k-th matching position, and nothing else is returned.
C7_ListReturnsMatchingSubsequence ==
    (op = "get_files" /\ raised = "none") =>
        LET hits == { i \in DOMAIN all_files : fnmatch(all_files[i], file_pattern) }
            kth(k) == CHOOSE i \in hits : Cardinality({ j \in hits : j <= i }) = k
        IN  /\ Len(retList) = Cardinality(hits)
            /\ \A k \in DOMAIN retList : retList[k] = all_files[kth(k)]

C7_Witness ==
    /\ op = "get_files" /\ raised = "none"
    /\ all_files = << <<"a", "b">>, <<"b">>, <<"a">> >>
    /\ file_pattern = <<"a", "*">>
    /\ retList = << <<"a", "b">>, <<"a">> >>

\* C8: the arguments connect() gives the transport hold the key and no
\* password when a key file is set, and the password and no key when only a
\* password is set.
C8_OneAuthMethod ==
    (op \in {"connect", "get_files"} /\ Made("client.connect")) =>
        /\ Len(kwargs) = 1
        /\ Truthy(pem_file) =>
              /\ "pkey" \in DOMAIN kwargs[1]
              /\ kwargs[1]["pkey"] = pem_file
              /\ "password" \notin DOMAIN kwargs[1]
        /\ (~Truthy(pem_file) /\ Truthy(password)) =>
              /\ "password" \in DOMAIN kwargs[1]
              /\ kwargs[1]["password"] = password
              /\ "pkey" \notin DOMAIN kwargs[1]

C8_Witness ==
    /\ op = "connect" /\ Made("client.connect")
    /\ pem_file = "key.pem" /\ password = "pass"
    /\ "pkey" \in DOMAIN kwargs[1]

\* C9: at most one session created by the client is open at any time.
C9_AtMostOneSession ==
    Cardinality(OpenSessions) <= 1

\* C10 as stated: the path requested is remote_path less exactly one trailing
\* "/", then "/", then the file name.
C10_StripsExactlyOneSlash ==
    (op \in FetchOps /\ reqPaths # <<>>) =>
        LET n == Len(remote_path)
            dir == IF n > 0 /\ remote_path[n] = "/"
                   THEN SubSeq(remote_path, 1, n - 1) ELSE remote_path
        IN  reqPaths = << dir \o <<"/">> \o file_name >>

\* C10 amended: the path requested is remote_path less all of its trailing
\* "/", then "/", then the file name.
C10_StripsAllTrailingSlashes ==
    (op \in FetchOps /\ reqPaths # <<>>) =>
        \E k \in 0..Len(remote_path) :
            /\ k > 0 => remote_path[k] # "/"
            /\ \A j \in (k + 1)..Len(remote_path) : remote_path[j] = "/"
            /\ reqPaths = << SubSeq(remote_path, 1, k) \o <<"/">> \o file_name >>

C10_Witness ==
    /\ op = "get_csv_file" /\ retFetch = "table:header_row"
    /\ remote_path = <<"d", "/", "/">> /\ file_name = <<"f", "g">>
    /\ reqPaths = << <<"d", "/", "f", "g">> >>

====
